---- MODULE Spec2Model ----
(***************************************************************************)
(* Model of src/pyautogui/playwrightass1.py: the redirect resolver         *)
(* extract_bing_redirect (a pure function on strings) and main(), the      *)
(* search / rank / resolve / navigate / snapshot pipeline.                 *)
(*                                                                         *)
(* A Python str is a sequence of one-character strings; Python's None is   *)
(* the one-element sequence None, which no str equals.                     *)
(***************************************************************************)
EXTENDS Integers, Sequences, FiniteSets, TLC

(***************************************************************************)
(* Bounds of the enumerated inputs.                                        *)
(***************************************************************************)
\* longest href enumerated exhaustively over Alphabet
MaxLen == 3
\* longest plain URL that is percent-encoded and wrapped in a u parameter
MaxUrlLen == 3
\* most result links the results page holds
MaxCands == 2

(***************************************************************************)
(* Python str primitives.                                                  *)
(***************************************************************************)
None == <<"None">>

\* truthiness of a str-or-None value: `if href`, `if target`, `if chosen_href`
Truthy(s) == s # None /\ s # <<>>

\* s[i:] and s[:n] for 0 <= i, n
DropFirst(s, n) == IF n >= Len(s) THEN <<>> ELSE SubSeq(s, n + 1, Len(s))
TakeFirst(s, n) == IF n >= Len(s) THEN s ELSE SubSeq(s, 1, n)

\* s.startswith(p)
StartsWith(s, p) == Len(p) <= Len(s) /\ SubSeq(s, 1, Len(p)) = p

\* s.find(sub): the 1-based position of the first occurrence, 0 when there is
\* none (Python's -1)
Find(s, sub) ==
    LET P == {i \in 1..(Len(s) - Len(sub) + 1) : SubSeq(s, i, i + Len(sub) - 1) = sub}
    IN  IF P = {} THEN 0 ELSE CHOOSE i \in P : \A j \in P : i <= j

\* `sub in s`
Contains(s, sub) == Find(s, sub) # 0

\* s.split(sep), sep one character: the pieces between the separators
RECURSIVE Split(_, _)
Split(s, sep) ==
    LET i == Find(s, <<sep>>)
    IN  IF i = 0 THEN <<s>>
        ELSE <<TakeFirst(s, i - 1)>> \o Split(DropFirst(s, i), sep)

\* s.replace('+', ' ')
PlusToSpace(s) == [i \in 1..Len(s) |-> IF s[i] = "+" THEN " " ELSE s[i]]

(***************************************************************************)
(* ASCII: the printable characters 32..126, in code order (the grave       *)
(* accent, 96, is spelled "<grave>": the lexer rejects it in a string).    *)
(***************************************************************************)
AsciiPrintable ==
    << " ", "!", "\"", "#", "$", "%", "&", "'", "(", ")", "*", "+", ",", "-", ".", "/",
       "0", "1", "2", "3", "4", "5", "6", "7", "8", "9", ":", ";", "<", "=", ">", "?",
       "@", "A", "B", "C", "D", "E", "F", "G", "H", "I", "J", "K", "L", "M", "N", "O",
       "P", "Q", "R", "S", "T", "U", "V", "W", "X", "Y", "Z", "[", "\\", "]", "^", "_",
       "<grave>", "a", "b", "c", "d", "e", "f", "g", "h", "i", "j", "k", "l", "m", "n", "o",
       "p", "q", "r", "s", "t", "u", "v", "w", "x", "y", "z", "{", "|", "}", "~" >>

\* chr(n); the bytes outside 32..126 share one stand-in (no input of the
\* model escapes such a byte)
Chr(n) == IF n \in 32..126 THEN AsciiPrintable[n - 31] ELSE "<np>"

\* ord(c) of a printable character
Ord(c) == 31 + CHOOSE i \in 1..Len(AsciiPrintable) : AsciiPrintable[i] = c

HexDigits == <<"0", "1", "2", "3", "4", "5", "6", "7", "8", "9",
               "A", "B", "C", "D", "E", "F">>

IsHex(c) ==
    c \in {"0", "1", "2", "3", "4", "5", "6", "7", "8", "9",
           "a", "b", "c", "d", "e", "f", "A", "B", "C", "D", "E", "F"}

HexVal(c) ==
    CASE c \in {"a", "A"} -> 10
      [] c \in {"b", "B"} -> 11
      [] c \in {"c", "C"} -> 12
      [] c \in {"d", "D"} -> 13
      [] c \in {"e", "E"} -> 14
      [] c \in {"f", "F"} -> 15
      [] OTHER -> Ord(c) - 48

UpperChars == {AsciiPrintable[i] : i \in 34..59}
LowerChars == {AsciiPrintable[i] : i \in 66..91}
DigitChars == {AsciiPrintable[i] : i \in 17..26}

IsUpper(c) == c \in UpperChars
IsAlpha(c) == c \in UpperChars \cup LowerChars
IsDigit(c) == c \in DigitChars

\* s.lower()
Lower(s) == [i \in 1..Len(s) |-> IF IsUpper(s[i]) THEN Chr(Ord(s[i]) + 32) ELSE s[i]]

(***************************************************************************)
(* urllib.parse, as extract_bing_redirect uses it.  Modelled after CPython *)
(* 3.9+ (parse_qs separates on '&' only); the inputs hold no ']', no       *)
(* whitespace and no control character, where the versions differ.         *)
(***************************************************************************)

\* unquote(string): every '%' followed by two hex digits becomes the byte
\* they name; any other '%' stays
RECURSIVE Unquote(_)
Unquote(s) ==
    IF s = <<>> THEN <<>>
    ELSE IF s[1] = "%" /\ Len(s) >= 3 /\ IsHex(s[2]) /\ IsHex(s[3])
         THEN <<Chr(16 * HexVal(s[2]) + HexVal(s[3]))>> \o Unquote(DropFirst(s, 3))
         ELSE <<s[1]>> \o Unquote(Tail(s))

\* urlsplit's scheme_chars
IsSchemeChar(c) == IsAlpha(c) \/ IsDigit(c) \/ c \in {"+", "-", "."}

\* urlsplit: the url with its scheme (and the ':') taken off, when it has one
StripScheme(url) ==
    LET i == Find(url, <<":">>)
    IN  IF i > 1 /\ IsAlpha(url[1]) /\ \A k \in 1..(i - 1) : IsSchemeChar(url[k])
        THEN DropFirst(url, i)
        ELSE url

\* _splitnetloc(url, 2): the 1-based position of the first of '/', '?', '#'
\* after the leading '//', Len(url) + 1 when there is none
NetlocEnd(url) ==
    LET D == {i \in 3..Len(url) : url[i] \in {"/", "?", "#"}}
    IN  IF D = {} THEN Len(url) + 1 ELSE CHOOSE i \in D : \A j \in D : i <= j

\* urlsplit raises ValueError("Invalid IPv6 URL"): a netloc with one of
\* '[' and ']' and not the other
UrlsplitRaises(href) ==
    LET url == StripScheme(href)
    IN  /\ StartsWith(url, <<"/", "/">>)
        /\ LET netloc == SubSeq(url, 3, NetlocEnd(url) - 1)
           IN  \/ Contains(netloc, <<"[">>) /\ ~Contains(netloc, <<"]">>)
               \/ Contains(netloc, <<"]">>) /\ ~Contains(netloc, <<"[">>)

\* urlparse(href).query: what follows the first '?' of the part before the
\* first '#', the scheme and the netloc taken off first
UrlQuery(href) ==
    LET url0 == StripScheme(href)
        url1 == IF StartsWith(url0, <<"/", "/">>)
                THEN DropFirst(url0, NetlocEnd(url0) - 1)
                ELSE url0
        h    == Find(url1, <<"#">>)
        url2 == IF h = 0 THEN url1 ELSE TakeFirst(url1, h - 1)
        q    == Find(url2, <<"?">>)
    IN  IF q = 0 THEN <<>> ELSE DropFirst(url2, q)

\* parse_qsl's treatment of one name=value field: no pair for an empty
\* field, a field without '=' or a blank value; else the name and the value,
\* each with '+' made a space and then unquoted
FieldPair(nv) ==
    LET e == Find(nv, <<"=">>)
    IN  IF nv = <<>> \/ e = 0 \/ DropFirst(nv, e) = <<>>
        THEN <<>>
        ELSE << <<Unquote(PlusToSpace(TakeFirst(nv, e - 1))),
                  Unquote(PlusToSpace(DropFirst(nv, e)))>> >>

RECURSIVE PairsOf(_)
PairsOf(fields) ==
    IF fields = <<>> THEN <<>>
    ELSE FieldPair(Head(fields)) \o PairsOf(Tail(fields))

\* parse_qsl(qs): the (name, value) pairs in order
ParseQsl(qs) == IF qs = <<>> THEN <<>> ELSE PairsOf(Split(qs, "&"))

\* parse_qs(qs)[name], <<>> when name is no key: the values given to name,
\* in order
RECURSIVE ValuesOf(_, _)
ValuesOf(pairs, name) ==
    IF pairs = <<>> THEN <<>>
    ELSE (IF Head(pairs)[1] = name THEN <<Head(pairs)[2]>> ELSE <<>>)
         \o ValuesOf(Tail(pairs), name)

ParseQs(qs, name) == ValuesOf(ParseQsl(qs), name)

(***************************************************************************)
(* extract_bing_redirect.                                                  *)
(***************************************************************************)

\* lines 41-48: the text after the first 'u=' up to the next '&' or the end,
\* unquoted
CrudeFallback(href) ==
    LET start == Find(href, <<"u", "=">>) + 1
        rest  == DropFirst(href, start)
        end   == Find(rest, <<"&">>)
        val   == IF end # 0 THEN TakeFirst(rest, end - 1) ELSE rest
    IN  Unquote(val)

\* lines 33-48, the body of the try: it raises, returns a value, or falls
\* through to line 51
TryBody(href) ==
    IF UrlsplitRaises(href)
    THEN [kind |-> "raise", value |-> <<>>]
    ELSE LET us == ParseQs(UrlQuery(href), <<"u">>)
         IN  IF us # <<>> /\ Truthy(us[1])
             THEN [kind |-> "return", value |-> Unquote(us[1])]
             ELSE IF Contains(href, <<"u", "=">>)
                  THEN [kind |-> "return", value |-> CrudeFallback(href)]
                  ELSE [kind |-> "fall", value |-> <<>>]

\* the function without its except clause: the ValueError escapes
ExtractNoExcept(href) ==
    IF ~Truthy(href) THEN [raised |-> FALSE, value |-> href]
    ELSE LET r == TryBody(href)
         IN  CASE r.kind = "return" -> [raised |-> FALSE, value |-> r.value]
               [] r.kind = "raise"  -> [raised |-> TRUE, value |-> href]
               [] OTHER             -> [raised |-> FALSE, value |-> href]

\* the function unquoting what it returns at line 51
ExtractUnquoteAll(href) ==
    IF ~Truthy(href) THEN [raised |-> FALSE, value |-> href]
    ELSE LET r == TryBody(href)
         IN  CASE r.kind = "return" -> [raised |-> FALSE, value |-> r.value]
               [] OTHER             -> [raised |-> FALSE, value |-> Unquote(href)]

\* extract_bing_redirect(href): whether the call raises, and what it returns
ExtractBingRedirect(href) ==
    IF ~Truthy(href) THEN [raised |-> FALSE, value |-> href]
    ELSE LET r == TryBody(href)
         IN  CASE r.kind = "return" -> [raised |-> FALSE, value |-> r.value]
               [] r.kind = "raise"  -> [raised |-> FALSE, value |-> href]
               [] OTHER             -> [raised |-> FALSE, value |-> href]

(***************************************************************************)
(* State.  rpc, href, plain, ret, ret2: one call of extract_bing_redirect  *)
(* on an enumerated href, and a second call on what the first returned.    *)
(* The others: one run of main().                                          *)
(***************************************************************************)
VARIABLES
    rpc,            \* resolver: "idle", "call", "returned", "again"
    href,           \* resolver: the argument
    plain,          \* resolver: the URL the href wraps percent-encoded in u, or None
    ret,            \* resolver: outcome of extract_bing_redirect(href)
    ret2,           \* resolver: outcome of extract_bing_redirect(ret.value)
    pc,             \* main: the statement about to run
    exc,            \* main: the exception the outer try caught: "none", "timeout", "other"
    consent_i,      \* main: index of `sel` in consent_selectors
    consent_clicks, \* main: calls of loc.first.click made
    sel_i,          \* main: index of `sel` in RESULT_LINK_SELECTORS
    attempts,       \* main: the page.wait_for_selector calls made: (selector, outcome)
    results_found,
    dom,            \* main: the result links of the page, in document order
    count,          \* main: results.count(), -1 before line 113
    i,              \* main: loop variable of line 120
    chosen_index,   \* main: -1 is Python's None
    chosen_href,
    chosen_title,
    target,
    navlog,         \* main: the navigation operations attempted, with outcomes
    ts,
    files,          \* main: the files opened for writing, in order
    close_calls,    \* main: calls of browser.close()
    spc,            \* send script, main: the statement about to run
    _last_send_time,    \* send script: in ticks
    _stop_flag,
    clock,          \* send script: time.time(), in ticks
    mouse_running,  \* send script: mouse_listener.running
    keyboard_running,   \* send script: the keyboard listener delivers keys
    click_pc,       \* send script, on_click: "idle", or "line35" past the test of line 32
    event,          \* send script: the mouse event on_click is handling
    outcome,        \* send script: how the last call of on_click ended
    sends           \* send script: the send_message threads started

rvars == <<rpc, href, plain, ret, ret2>>
mvars == <<pc, exc, consent_i, consent_clicks, sel_i, attempts, results_found,
           dom, count, i, chosen_index, chosen_href, chosen_title,
           target, navlog, ts, files, close_calls>>
svars == <<spc, _last_send_time, _stop_flag, clock, mouse_running,
           keyboard_running, click_pc, event, outcome, sends>>
vars == <<rvars, mvars, svars>>

(***************************************************************************)
(* The resolver on enumerated inputs.                                      *)
(***************************************************************************)
Alphabet == {"u", "x", "=", "&", "?", "#", "%", "2", "5", "+", "/", "[", ":"}
UrlAlphabet == {"x", "%", "2", "5", "/", "&"}

\* the strings over A of length at most n
StringsUpTo(A, n) == UNION {[1..k -> A] : k \in 0..n}

\* quote(s, safe=''): every character but letters, digits and "_.-~" becomes
\* '%' and its two upper-case hex digits
QuoteChar(c) ==
    IF IsAlpha(c) \/ IsDigit(c) \/ c \in {"_", ".", "-", "~"}
    THEN <<c>>
    ELSE <<"%", HexDigits[(Ord(c) \div 16) + 1], HexDigits[(Ord(c) % 16) + 1]>>

RECURSIVE Quote(_)
Quote(s) == IF s = <<>> THEN <<>> ELSE QuoteChar(Head(s)) \o Quote(Tail(s))

\* what precedes the u parameter of a wrapped link, and what follows it
WrapPrefixes == { <<"?">>, <<"/", "x", "?", "x", "=", "2", "&">> }
WrapSuffixes == { <<>>, <<"&", "x", "=", "5">> }

\* a redirect link carrying url percent-encoded in its parameter u
Wrap(pre, url, suf) == pre \o <<"u", "=">> \o Quote(url) \o suf

Unset == [raised |-> FALSE, value |-> None]

MainIdle ==
    /\ pc = "idle" /\ exc = "none"
    /\ consent_i = 1 /\ consent_clicks = 0
    /\ sel_i = 1 /\ attempts = <<>> /\ results_found = FALSE
    /\ dom = <<>> /\ count = -1 /\ i = 0
    /\ chosen_index = -1 /\ chosen_href = None /\ chosen_title = None
    /\ target = None /\ navlog = <<>> /\ ts = 0 /\ files = <<>>
    /\ close_calls = 0

\* no mouse event in hand
NoEvent == [button |-> "none", pressed |-> FALSE, late |-> FALSE]

\* the send script is not run
SendIdle ==
    /\ spc = "idle"
    /\ _last_send_time = 0 /\ _stop_flag = FALSE /\ clock = 0
    /\ mouse_running = FALSE /\ keyboard_running = FALSE
    /\ click_pc = "idle" /\ event = NoEvent /\ outcome = "none"
    /\ sends = <<>>

InitResolve ==
    /\ rpc = "call"
    /\ \/ /\ plain = None
          /\ href \in StringsUpTo(Alphabet, MaxLen) \cup {None}
       \/ /\ plain \in StringsUpTo(UrlAlphabet, MaxUrlLen) \ {<<>>}
          /\ \E pre \in WrapPrefixes, suf \in WrapSuffixes :
                href = Wrap(pre, plain, suf)
    /\ ret = Unset /\ ret2 = Unset
    /\ MainIdle
    /\ SendIdle

\* the call extract_bing_redirect(href)
Resolve ==
    /\ rpc = "call"
    /\ ret' = ExtractBingRedirect(href)
    /\ rpc' = "returned"
    /\ UNCHANGED <<href, plain, ret2, mvars, svars>>

\* the call extract_bing_redirect on what the first call returned
ResolveAgain ==
    /\ rpc = "returned" /\ ~ret.raised
    /\ ret2' = ExtractBingRedirect(ret.value)
    /\ rpc' = "again"
    /\ UNCHANGED <<href, plain, ret, mvars, svars>>

NextResolve == Resolve \/ ResolveAgain

SpecResolve == InitResolve /\ [][NextResolve]_vars

(***************************************************************************)
(* Claims about extract_bing_redirect, checked under SpecResolve.          *)
(***************************************************************************)

\* C1 (as claimed): for an href whose parameter u holds a percent-encoded
\* URL, followed or not by further parameters, extract_bing_redirect returns
\* that URL exactly: the value of u decoded once.
C1_ReturnsOnceDecoded ==
    (rpc # "call" /\ plain # None) => (~ret.raised /\ ret.value = plain)

\* parse_qs(urlparse(h).query) has the key 'u'
HasParamU(h) == ~UrlsplitRaises(h) /\ ParseQs(UrlQuery(h), <<"u">>) # <<>>

\* C2: an href with no query parameter named u and without the substring
\* 'u=' is returned unchanged, and resolving the result again changes nothing.
C2_NoRedirectUnchanged ==
    (/\ rpc = "again"
     /\ href # None
     /\ ~HasParamU(href)
     /\ ~Contains(href, <<"u", "=">>))
    => (/\ ~ret.raised /\ ~ret2.raised
        /\ ret.value = href
        /\ ret2.value = ret.value)

\* C2's case: an href holding an escape and no u is returned as it is
C2_Witness ==
    /\ rpc = "again"
    /\ href = <<"%", "2", "5">>
    /\ ret.value = href /\ ret2.value = href

\* C3 (as claimed): the target resolved from a non-empty href is non-empty.
C3_TargetNonEmpty ==
    (rpc # "call" /\ Truthy(href)) => ret.value # <<>>

\* C4: extract_bing_redirect never raises, whatever the href (empty, None,
\* unparsable), and returns the href itself when the href is empty or None
\* and when urlparse fails on it.
C4_TotalAndGraceful ==
    /\ rpc # "call" =>
          /\ ~ret.raised
          /\ (~Truthy(href) => ret.value = href)
          /\ (Truthy(href) /\ UrlsplitRaises(href) => ret.value = href)
    /\ rpc = "again" => ~ret2.raised

\* C4's case: urlparse raises on '//[' and the href comes back
C4_Witness ==
    /\ rpc = "returned"
    /\ href = <<"/", "/", "[">>
    /\ UrlsplitRaises(href)
    /\ ret = [raised |-> FALSE, value |-> href]

(***************************************************************************)
(* main(): configuration and the result links a page may hold.             *)
(***************************************************************************)
RESULT_LINK_SELECTORS ==
    <<"li.b_algo h2 a", ".b_algo a", "a[href*='cricbuzz.com']",
      "a[href*='espncricinfo.com']">>

consent_selectors ==
    <<"button:has-text(\"I agree\")", "button:has-text(\"I Accept\")",
      "button:has-text(\"Accept all\")", "button:has-text(\"Accept\")",
      "button:has-text(\"Ok\")", "button#bnp_btn_accept">>

KwScorecard ==
    <<"s", "c", "o", "r", "e", "c", "a", "r", "d">>

KwEspncricinfo ==
    <<"e", "s", "p", "n", "c", "r", "i", "c", "i", "n", "f", "o">>

KwCricbuzz ==
    <<"c", "r", "i", "c", "b", "u", "z", "z">>

KwCricket ==
    <<"c", "r", "i", "c", "k", "e", "t">>

HttpPrefix ==
    <<"h", "t", "t", "p", ":", "/", "/">>

HttpsPrefix ==
    <<"h", "t", "t", "p", "s", ":", "/", "/">>

\* hrefs and titles of result links
HrefPlain ==
    <<"a", ".", "c", "o", "m", "/", "x">>

HrefScorecard ==
    <<"x", ".", "c", "o", "m", "/", "s", "c", "o", "r", "e", "c", "a", "r",
      "d">>

HrefCricbuzz ==
    <<"h", "t", "t", "p", "s", ":", "/", "/", "c", "r", "i", "c", "b", "u",
      "z", "z", ".", "c", "o", "m">>

\* a Bing ck/a link: u is the base64 text of https://espncricinfo.com
BingWrapped ==
    <<"h", "t", "t", "p", "s", ":", "/", "/", "w", "w", "w", ".", "b", "i",
      "n", "g", ".", "c", "o", "m", "/", "c", "k", "/", "a", "?", "p", "=",
      "1", "&", "u", "=", "a", "H", "R", "0", "c", "H", "M", "6", "L", "y",
      "9", "l", "c", "3", "B", "u", "Y", "3", "J", "p", "Y", "2", "l", "u",
      "Z", "m", "8", "u", "Y", "2", "9", "t", "&", "n", "t", "b", "=", "1">>

TitleNews ==
    <<"N", "e", "w", "s">>

TitleCricbuzz ==
    <<"C", "r", "i", "c", "b", "u", "z", "z">>

TitleScorecard ==
    <<" ", "S", "c", "o", "r", "e", "c", "a", "r", "d", " ">>

\* a read of the element raises (the element is detached)
Raises == <<"raises">>

\* a result link: what inner_text() and get_attribute("href") give for it
\* (href None: the element has no such attribute)
Links ==
    { [title |-> TitleNews,      href |-> HrefPlain],
      [title |-> TitleNews,      href |-> HrefScorecard],
      [title |-> TitleCricbuzz,  href |-> HrefPlain],
      [title |-> TitleScorecard, href |-> None],
      [title |-> TitleNews,      href |-> BingWrapped],
      [title |-> TitleNews,      href |-> HrefCricbuzz],
      [title |-> Raises,         href |-> HrefScorecard],
      [title |-> TitleNews,      href |-> Raises] }

\* the lists of result links a page may hold
Doms == UNION {[1..k -> Links] : k \in 0..MaxCands}

\* int(time.time())
MaxTime == 1
Times == 0..MaxTime

\* s.strip(): s without its leading and trailing spaces
Strip(s) ==
    LET P == {k \in 1..Len(s) : s[k] # " "}
    IN  IF P = {} THEN <<>>
        ELSE SubSeq(s, CHOOSE k \in P : \A j \in P : k <= j,
                       CHOOSE k \in P : \A j \in P : k >= j)

\* x or ""
OrEmpty(x) == IF Truthy(x) THEN x ELSE <<>>

\* lines 122-125: the title the scan reads from a link
ScanTitle(link) == IF link.title = Raises THEN <<>> ELSE Strip(link.title)

\* lines 126-129: the href the scan reads from a link
ScanHref(link) == IF link.href = Raises THEN <<>> ELSE OrEmpty(link.href)

\* the keyword test with the trusted domains looked for in the title too
KeywordTestBothFields(low_href, low_title) ==
    \/ Contains(low_href, KwScorecard)    \/ Contains(low_title, KwScorecard)
    \/ Contains(low_href, KwEspncricinfo) \/ Contains(low_title, KwEspncricinfo)
    \/ Contains(low_href, KwCricbuzz)     \/ Contains(low_title, KwCricbuzz)
    \/ Contains(low_title, KwCricket)     \/ Contains(low_href, KwCricket)

\* lines 133-135
KeywordTest(low_href, low_title) ==
    \/ Contains(low_href, KwScorecard) \/ Contains(low_title, KwScorecard)
    \/ Contains(low_href, KwEspncricinfo) \/ Contains(low_href, KwCricbuzz)
    \/ Contains(low_title, KwCricket) \/ Contains(low_href, KwCricket)

\* line 161
IsAbsolute(t) ==
    Truthy(t) /\ (StartsWith(t, HttpPrefix) \/ StartsWith(t, HttpsPrefix))

\* the outer try catches e: lines 205-210
Caught(e) == pc' = "finally" /\ exc' = e

(***************************************************************************)
(* main(): one action for each browser operation and the statements        *)
(* around it.  An operation ends "ok", "timeout" (PlaywrightTimeoutError)  *)
(* or "error" (any other exception).                                       *)
(***************************************************************************)
Init ==
    /\ rpc = "idle" /\ href = None /\ plain = None
    /\ ret = Unset /\ ret2 = Unset
    /\ pc = "goto_search" /\ exc = "none"
    /\ consent_i = 1 /\ consent_clicks = 0
    /\ sel_i = 1 /\ attempts = <<>> /\ results_found = FALSE
    /\ dom = <<>> /\ count = -1 /\ i = 0
    /\ chosen_index = -1 /\ chosen_href = None /\ chosen_title = None
    /\ target = None /\ navlog = <<>> /\ ts = 0 /\ files = <<>>
    /\ close_calls = 0
    /\ SendIdle

\* line 68
GotoSearch ==
    /\ pc = "goto_search"
    /\ \E o \in {"ok", "timeout", "error"} :
          IF o = "ok" THEN pc' = "consent" /\ exc' = exc
          ELSE Caught(IF o = "timeout" THEN "timeout" ELSE "other")
    /\ UNCHANGED <<rvars, svars, consent_i, consent_clicks, sel_i, attempts,
                   results_found, dom, count, i, chosen_index,
                   chosen_href, chosen_title, target, navlog, ts, files,
                   close_calls>>

\* lines 80-82 and 87-88: loc.count() for consent_selectors[consent_i]; an
\* exception ends the consent step
ConsentCount ==
    /\ pc = "consent"
    /\ \E o \in {"zero", "some", "fail"} :
          CASE o = "some" -> pc' = "consent_click" /\ consent_i' = consent_i
            [] o = "zero" /\ consent_i < Len(consent_selectors) ->
                  pc' = "consent" /\ consent_i' = consent_i + 1
            [] OTHER -> pc' = "wait_selector" /\ consent_i' = 0
    /\ UNCHANGED <<rvars, svars, exc, consent_clicks, sel_i, attempts, results_found,
                   dom, count, i, chosen_index, chosen_href,
                   chosen_title, target, navlog, ts, files, close_calls>>

\* the click without the try around the consent step: its failure leaves
\* the try block of main
ConsentClickUnguarded ==
    /\ pc = "consent_click"
    /\ consent_clicks' = consent_clicks + 1
    /\ \E o \in {"ok", "fail"} :
          IF o = "ok" THEN pc' = "consent_wait" /\ consent_i' = consent_i /\ exc' = exc
          ELSE Caught("timeout") /\ consent_i' = 0
    /\ UNCHANGED <<rvars, svars, sel_i, attempts, results_found, dom, count, i,
                   chosen_index, chosen_href, chosen_title, target,
                   navlog, ts, files, close_calls>>

\* lines 83-84 and 87-88
ConsentClick ==
    /\ pc = "consent_click"
    /\ consent_clicks' = consent_clicks + 1
    /\ \E o \in {"ok", "fail"} :
          IF o = "ok" THEN pc' = "consent_wait" /\ consent_i' = consent_i
          ELSE pc' = "wait_selector" /\ consent_i' = 0
    /\ UNCHANGED <<rvars, svars, exc, sel_i, attempts, results_found, dom, count, i,
                   chosen_index, chosen_href, chosen_title, target,
                   navlog, ts, files, close_calls>>

\* lines 85-88: page.wait_for_timeout(800), then break
ConsentWait ==
    /\ pc = "consent_wait"
    /\ pc' = "wait_selector" /\ consent_i' = 0
    /\ UNCHANGED <<rvars, svars, exc, consent_clicks, sel_i, attempts, results_found,
                   dom, count, i, chosen_index, chosen_href,
                   chosen_title, target, navlog, ts, files, close_calls>>

\* the loop without its break: a match goes on to the next selector
WaitForSelectorNoBreak ==
    /\ pc = "wait_selector"
    /\ \E o \in {"match", "timeout", "error"} :
          /\ attempts' = Append(attempts, <<RESULT_LINK_SELECTORS[sel_i], o>>)
          /\ IF o = "error"
             THEN /\ results_found' = results_found /\ sel_i' = sel_i
                  /\ Caught("other")
             ELSE /\ results_found' = (results_found \/ o = "match")
                  /\ exc' = exc
                  /\ IF sel_i < Len(RESULT_LINK_SELECTORS)
                     THEN pc' = "wait_selector" /\ sel_i' = sel_i + 1
                     ELSE /\ sel_i' = sel_i
                          /\ pc' = IF results_found' THEN "count" ELSE "noresults"
    /\ UNCHANGED <<rvars, svars, consent_i, consent_clicks, dom, count, i,
                   chosen_index, chosen_href, chosen_title, target, navlog,
                   ts, files, close_calls>>

\* the loop waiting again for the same selector after a timeout
WaitForSelectorRetry ==
    /\ pc = "wait_selector"
    /\ \E o \in {"match", "timeout", "error"} :
          /\ attempts' = Append(attempts, <<RESULT_LINK_SELECTORS[sel_i], o>>)
          /\ CASE o = "match" ->
                    /\ results_found' = TRUE
                    /\ pc' = "count" /\ sel_i' = sel_i /\ exc' = exc
               [] o = "timeout" ->
                    /\ results_found' = results_found /\ exc' = exc
                    /\ pc' = "wait_selector" /\ sel_i' = sel_i
               [] OTHER ->
                    /\ results_found' = results_found /\ sel_i' = sel_i
                    /\ Caught("other")
    /\ UNCHANGED <<rvars, svars, consent_i, consent_clicks, dom, count, i,
                   chosen_index, chosen_href, chosen_title, target, navlog,
                   ts, files, close_calls>>

\* lines 92-98: page.wait_for_selector(RESULT_LINK_SELECTORS[sel_i])
WaitForSelector ==
    /\ pc = "wait_selector"
    /\ \E o \in {"match", "timeout", "error"} :
          /\ attempts' = Append(attempts, <<RESULT_LINK_SELECTORS[sel_i], o>>)
          /\ CASE o = "match" ->
                    /\ results_found' = TRUE
                    /\ pc' = "count" /\ sel_i' = sel_i /\ exc' = exc
               [] o = "timeout" ->
                    /\ results_found' = results_found /\ exc' = exc
                    /\ IF sel_i < Len(RESULT_LINK_SELECTORS)
                       THEN pc' = "wait_selector" /\ sel_i' = sel_i + 1
                       ELSE pc' = "noresults" /\ sel_i' = sel_i
               [] OTHER ->
                    /\ results_found' = results_found /\ sel_i' = sel_i
                    /\ Caught("other")
    /\ UNCHANGED <<rvars, svars, consent_i, consent_clicks, dom, count, i, chosen_index, chosen_href, chosen_title, target, navlog,
                   ts, files, close_calls>>

\* a file opened for writing: its name's parts and what was written to it
File(prefix, t, ext, content) ==
    [prefix |-> prefix, ts |-> t, ext |-> ext, content |-> content]

\* the no-results branch without its return: the run goes on to line 112
NoResultsDumpNoReturn ==
    /\ pc = "noresults"
    /\ \E t \in Times, o \in {"ok", "timeout", "error"} :
          /\ ts' = t
          /\ IF o = "ok"
             THEN /\ files' = Append(files, File("bing_noresults", t, "html", "markup"))
                  /\ close_calls' = close_calls + 1
                  /\ pc' = "count" /\ exc' = exc
             ELSE /\ files' = Append(files, File("bing_noresults", t, "html", "empty"))
                  /\ close_calls' = close_calls
                  /\ Caught(IF o = "timeout" THEN "timeout" ELSE "other")
    /\ UNCHANGED <<rvars, svars, consent_i, consent_clicks, sel_i, attempts,
                   results_found, dom, count, i, chosen_index,
                   chosen_href, chosen_title, target, navlog>>

\* lines 100-109: the file is opened, then page.content() is written to it
NoResultsDump ==
    /\ pc = "noresults"
    /\ \E t \in Times, o \in {"ok", "timeout", "error"} :
          /\ ts' = t
          /\ IF o = "ok"
             THEN /\ files' = Append(files, File("bing_noresults", t, "html", "markup"))
                  /\ close_calls' = close_calls + 1
                  /\ pc' = "finally" /\ exc' = exc
             ELSE /\ files' = Append(files, File("bing_noresults", t, "html", "empty"))
                  /\ close_calls' = close_calls
                  /\ Caught(IF o = "timeout" THEN "timeout" ELSE "other")
    /\ UNCHANGED <<rvars, svars, consent_i, consent_clicks, sel_i, attempts,
                   results_found, dom, count, i, chosen_index,
                   chosen_href, chosen_title, target, navlog>>

\* lines 112-117: results.count() over the links the page holds
CountResults ==
    /\ pc = "count"
    /\ \/ \E d \in Doms :
             /\ dom' = d /\ count' = Len(d)
             /\ pc' = "scan" /\ exc' = exc
       \/ \E e \in {"timeout", "other"} :
             /\ Caught(e)
             /\ UNCHANGED <<dom, count>>
    /\ UNCHANGED <<rvars, svars, consent_i, consent_clicks, sel_i, attempts,
                   results_found, i, chosen_index, chosen_href,
                   chosen_title, target, navlog, ts, files, close_calls>>

\* the scan without its break: the last link passing the test is chosen
ScanLinkNoBreak ==
    /\ pc = "scan" /\ i < count
    /\ LET title     == ScanTitle(dom[i + 1])
           h         == ScanHref(dom[i + 1])
           low_href  == Lower(OrEmpty(h))
           low_title == Lower(OrEmpty(title))
       IN  /\ IF KeywordTest(low_href, low_title)
              THEN /\ chosen_index' = i
                   /\ chosen_href' = h
                   /\ chosen_title' = title
              ELSE UNCHANGED <<chosen_index, chosen_href, chosen_title>>
           /\ IF i + 1 = count /\ chosen_index' # -1
              THEN i' = i /\ pc' = "resolve"
              ELSE i' = i + 1 /\ pc' = "scan"
    /\ UNCHANGED <<rvars, svars, exc, consent_i, consent_clicks, sel_i, attempts,
                   results_found, dom, count, target, navlog, ts, files,
                   close_calls>>

\* lines 120-139, one iteration: a failed read gives ""
ScanLink ==
    /\ pc = "scan" /\ i < count
    /\ LET title     == ScanTitle(dom[i + 1])
           h         == ScanHref(dom[i + 1])
           low_href  == Lower(OrEmpty(h))
           low_title == Lower(OrEmpty(title))
       IN  IF KeywordTest(low_href, low_title)
           THEN /\ chosen_index' = i
                /\ chosen_href' = h
                /\ chosen_title' = title
                /\ i' = i
                /\ pc' = "resolve"
           ELSE /\ UNCHANGED <<chosen_index, chosen_href, chosen_title>>
                /\ i' = i + 1
                /\ pc' = "scan"
    /\ UNCHANGED <<rvars, svars, exc, consent_i, consent_clicks, sel_i, attempts,
                   results_found, dom, count, target, navlog, ts, files,
                   close_calls>>

\* lines 142-146: no link passed the test and there is one; the reads are
\* not guarded
Fallback ==
    /\ pc = "scan" /\ i = count
    /\ chosen_index = -1 /\ count > 0
    /\ chosen_index' = 0
    /\ CASE dom[1].title = Raises ->
               /\ UNCHANGED <<chosen_title, chosen_href>>
               /\ \E e \in {"timeout", "other"} : Caught(e)
         [] dom[1].title # Raises /\ dom[1].href = Raises ->
               /\ chosen_title' = Strip(dom[1].title)
               /\ UNCHANGED chosen_href
               /\ \E e \in {"timeout", "other"} : Caught(e)
         [] OTHER ->
               /\ chosen_title' = Strip(dom[1].title)
               /\ chosen_href' = dom[1].href
               /\ pc' = "resolve" /\ exc' = exc
    /\ UNCHANGED <<rvars, svars, consent_i, consent_clicks, sel_i, attempts,
                   results_found, dom, count, i, target, navlog,
                   ts, files, close_calls>>

\* the no-candidate branch without its close and return
NoCandidateNoReturn ==
    /\ pc = "scan" /\ i = count
    /\ chosen_index = -1 /\ count = 0
    /\ pc' = "resolve"
    /\ UNCHANGED <<rvars, svars, exc, consent_i, consent_clicks, sel_i, attempts,
                   results_found, dom, count, i, chosen_index,
                   chosen_href, chosen_title, target, navlog, ts, files,
                   close_calls>>

\* lines 148-151: no link at all
NoCandidate ==
    /\ pc = "scan" /\ i = count
    /\ chosen_index = -1 /\ count = 0
    /\ close_calls' = close_calls + 1
    /\ pc' = "finally"
    /\ UNCHANGED <<rvars, svars, exc, consent_i, consent_clicks, sel_i, attempts,
                   results_found, dom, count, i, chosen_index,
                   chosen_href, chosen_title, target, navlog, ts, files>>

\* line 157
ResolveTarget ==
    /\ pc = "resolve"
    /\ LET r == ExtractBingRedirect(chosen_href)
       IN  IF r.raised
           THEN Caught("other") /\ target' = target
           ELSE pc' = "navigate" /\ exc' = exc /\ target' = r.value
    /\ UNCHANGED <<rvars, svars, consent_i, consent_clicks, sel_i, attempts,
                   results_found, dom, count, i, chosen_index,
                   chosen_href, chosen_title, navlog, ts, files, close_calls>>

\* the direct navigation without its except clause: a timeout leaves the
\* try block of main
GotoTargetTimeoutUncaught ==
    /\ pc = "navigate" /\ IsAbsolute(target)
    /\ \E o \in {"ok", "timeout", "error"} :
          /\ navlog' = Append(navlog, <<"goto", o>>)
          /\ CASE o = "ok" -> pc' = "wait_load" /\ exc' = exc
               [] o = "timeout" -> Caught("timeout")
               [] OTHER -> Caught("other")
    /\ UNCHANGED <<rvars, svars, consent_i, consent_clicks, sel_i, attempts,
                   results_found, dom, count, i, chosen_index,
                   chosen_href, chosen_title, target, ts, files, close_calls>>

\* the direct navigation going on to click the link after a timeout, as the
\* message of line 165 has it
GotoTargetThenClick ==
    /\ pc = "navigate" /\ IsAbsolute(target)
    /\ \E o \in {"ok", "timeout", "error"} :
          /\ navlog' = Append(navlog, <<"goto", o>>)
          /\ CASE o = "ok" -> pc' = "wait_load" /\ exc' = exc
               [] o = "timeout" -> pc' = "click" /\ exc' = exc
               [] OTHER -> Caught("other")
    /\ UNCHANGED <<rvars, svars, consent_i, consent_clicks, sel_i, attempts,
                   results_found, dom, count, i, chosen_index,
                   chosen_href, chosen_title, target, ts, files, close_calls>>

\* lines 161-165: page.goto(target); only a timeout is caught here
GotoTarget ==
    /\ pc = "navigate" /\ IsAbsolute(target)
    /\ \E o \in {"ok", "timeout", "error"} :
          /\ navlog' = Append(navlog, <<"goto", o>>)
          /\ IF o = "error" THEN Caught("other")
             ELSE pc' = "wait_load" /\ exc' = exc
    /\ UNCHANGED <<rvars, svars, consent_i, consent_clicks, sel_i, attempts,
                   results_found, dom, count, i, chosen_index,
                   chosen_href, chosen_title, target, ts, files, close_calls>>

\* the else branch going to the script navigation at once
ScrollIntoViewSkipped ==
    /\ pc = "navigate" /\ ~IsAbsolute(target)
    /\ pc' = "click_failed"
    /\ UNCHANGED <<rvars, svars, exc, consent_i, consent_clicks, sel_i, attempts,
                   results_found, dom, count, i, chosen_index,
                   chosen_href, chosen_title, target, navlog, ts, files,
                   close_calls>>

\* lines 166-169: scroll_into_view_if_needed(), inside the try of the click
ScrollIntoView ==
    /\ pc = "navigate" /\ ~IsAbsolute(target)
    /\ \E o \in {"ok", "fail"} :
          /\ navlog' = Append(navlog, <<"scroll", o>>)
          /\ pc' = IF o = "ok" THEN "click" ELSE "click_failed"
    /\ UNCHANGED <<rvars, svars, exc, consent_i, consent_clicks, sel_i, attempts,
                   results_found, dom, count, i, chosen_index,
                   chosen_href, chosen_title, target, ts, files, close_calls>>

\* line 170
Click ==
    /\ pc = "click"
    /\ \E o \in {"ok", "fail"} :
          /\ navlog' = Append(navlog, <<"click", o>>)
          /\ pc' = IF o = "ok" THEN "wait_load" ELSE "click_failed"
    /\ UNCHANGED <<rvars, svars, exc, consent_i, consent_clicks, sel_i, attempts,
                   results_found, dom, count, i, chosen_index,
                   chosen_href, chosen_title, target, ts, files, close_calls>>

\* lines 171-178 with a chosen_href: page.evaluate sets window.location.href
ScriptNav ==
    /\ pc = "click_failed" /\ Truthy(chosen_href)
    /\ \E o \in {"ok", "fail"} : navlog' = Append(navlog, <<"evaluate", o>>)
    /\ pc' = "wait_load"
    /\ UNCHANGED <<rvars, svars, exc, consent_i, consent_clicks, sel_i, attempts,
                   results_found, dom, count, i, chosen_index,
                   chosen_href, chosen_title, target, ts, files, close_calls>>

\* lines 171-174 with chosen_href empty or None
SkipScriptNav ==
    /\ pc = "click_failed" /\ ~Truthy(chosen_href)
    /\ pc' = "wait_load"
    /\ UNCHANGED <<rvars, svars, exc, consent_i, consent_clicks, sel_i, attempts,
                   results_found, dom, count, i, chosen_index,
                   chosen_href, chosen_title, target, navlog, ts, files,
                   close_calls>>

\* lines 181-185: only a timeout is caught here
WaitLoadState ==
    /\ pc = "wait_load"
    /\ \E o \in {"ok", "timeout", "error"} :
          IF o = "error" THEN Caught("other")
          ELSE pc' = "settle" /\ exc' = exc
    /\ UNCHANGED <<rvars, svars, consent_i, consent_clicks, sel_i, attempts,
                   results_found, dom, count, i, chosen_index,
                   chosen_href, chosen_title, target, navlog, ts, files,
                   close_calls>>

\* line 188
Settle ==
    /\ pc = "settle"
    /\ \E o \in {"ok", "timeout", "error"} :
          IF o = "ok" THEN pc' = "screenshot" /\ exc' = exc
          ELSE Caught(IF o = "timeout" THEN "timeout" ELSE "other")
    /\ UNCHANGED <<rvars, svars, consent_i, consent_clicks, sel_i, attempts,
                   results_found, dom, count, i, chosen_index,
                   chosen_href, chosen_title, target, navlog, ts, files,
                   close_calls>>

\* lines 190-193
Screenshot ==
    /\ pc = "screenshot"
    /\ \E t \in Times, o \in {"ok", "timeout", "error"} :
          /\ ts' = t
          /\ IF o = "ok"
             THEN /\ files' = Append(files, File("scorecard", t, "png", "image"))
                  /\ pc' = "title" /\ exc' = exc
             ELSE /\ files' = files
                  /\ Caught(IF o = "timeout" THEN "timeout" ELSE "other")
    /\ UNCHANGED <<rvars, svars, consent_i, consent_clicks, sel_i, attempts,
                   results_found, dom, count, i, chosen_index,
                   chosen_href, chosen_title, target, navlog, close_calls>>

\* lines 195-198: page.title()
PageTitle ==
    /\ pc = "title"
    /\ \E o \in {"ok", "timeout", "error"} :
          IF o = "ok" THEN pc' = "save_html" /\ exc' = exc
          ELSE Caught(IF o = "timeout" THEN "timeout" ELSE "other")
    /\ UNCHANGED <<rvars, svars, consent_i, consent_clicks, sel_i, attempts,
                   results_found, dom, count, i, chosen_index,
                   chosen_href, chosen_title, target, navlog, ts, files,
                   close_calls>>

\* the markup file named from a second reading of the clock
SaveHtmlFreshTs ==
    /\ pc = "save_html"
    /\ \E t \in Times, o \in {"ok", "timeout", "error"} :
          IF o = "ok"
          THEN /\ files' = Append(files, File("scorecard", t, "html", "markup"))
               /\ pc' = "finally" /\ exc' = exc
          ELSE /\ files' = Append(files, File("scorecard", t, "html", "empty"))
               /\ Caught(IF o = "timeout" THEN "timeout" ELSE "other")
    /\ UNCHANGED <<rvars, svars, consent_i, consent_clicks, sel_i, attempts,
                   results_found, dom, count, i, chosen_index,
                   chosen_href, chosen_title, target, navlog, ts, close_calls>>

\* lines 200-203: the file is opened, then page.content() is written to it
SaveHtml ==
    /\ pc = "save_html"
    /\ \E o \in {"ok", "timeout", "error"} :
          IF o = "ok"
          THEN /\ files' = Append(files, File("scorecard", ts, "html", "markup"))
               /\ pc' = "finally" /\ exc' = exc
          ELSE /\ files' = Append(files, File("scorecard", ts, "html", "empty"))
               /\ Caught(IF o = "timeout" THEN "timeout" ELSE "other")
    /\ UNCHANGED <<rvars, svars, consent_i, consent_clicks, sel_i, attempts,
                   results_found, dom, count, i, chosen_index,
                   chosen_href, chosen_title, target, navlog, ts, close_calls>>

\* the finally block without its browser.close()
FinallyNoClose ==
    /\ pc = "finally"
    /\ pc' = "done"
    /\ UNCHANGED <<rvars, svars, exc, consent_i, consent_clicks, sel_i, attempts,
                   results_found, dom, count, i, chosen_index,
                   chosen_href, chosen_title, target, navlog, ts, files,
                   close_calls>>

\* lines 209-210
Finally ==
    /\ pc = "finally"
    /\ close_calls' = close_calls + 1
    /\ pc' = "done"
    /\ UNCHANGED <<rvars, svars, exc, consent_i, consent_clicks, sel_i, attempts,
                   results_found, dom, count, i, chosen_index,
                   chosen_href, chosen_title, target, navlog, ts, files>>

Next ==
    \/ GotoSearch \/ ConsentCount \/ ConsentClick \/ ConsentWait
    \/ WaitForSelector \/ NoResultsDump \/ CountResults
    \/ ScanLink \/ Fallback \/ NoCandidate
    \/ ResolveTarget \/ GotoTarget \/ ScrollIntoView \/ Click
    \/ ScriptNav \/ SkipScriptNav
    \/ WaitLoadState \/ Settle \/ Screenshot \/ PageTitle \/ SaveHtml
    \/ Finally

Spec == Init /\ [][Next]_vars

(***************************************************************************)
(* Claims about main(), checked under Spec.                                *)
(***************************************************************************)

\* what the base64 text in BingWrapped's u parameter encodes
EspnUrl ==
    <<"h", "t", "t", "p", "s", ":", "/", "/", "e", "s", "p", "n", "c", "r",
      "i", "c", "i", "n", "f", "o", ".", "c", "o", "m">>

\* C5 (as claimed): when the chosen link is the Bing link whose u is the
\* base64 text of https://espncricinfo.com, the resolved target is that URL
\* and the run navigates to it directly, without scroll or click.
C5_Base64LinkResolved ==
    (chosen_href = BingWrapped) =>
        /\ pc = "navigate" => target = EspnUrl
        /\ pc = "wait_load" => (navlog # <<>> /\ \A k \in 1..Len(navlog) : navlog[k][1] = "goto")

\* the link passes the keyword test of lines 133-135 on what the scan reads
\* from it
Passes(link) == KeywordTest(Lower(ScanHref(link)), Lower(ScanTitle(link)))

\* the ranking has just ended: a link is chosen and the target is about to
\* be resolved, or the run left the ranking for the finally block.  No step
\* after the ranking assigns chosen_index, dom, count or i.
RankingEnded ==
    \/ pc = "resolve"
    \/ pc = "finally" /\ count >= 0 /\ target = None

\* the least element of a non-empty set of numbers
Least(S) == CHOOSE k \in S : \A j \in S : k <= j

\* C6: when the ranking ends it has chosen the smallest index whose link
\* passes the keyword test; index 0 when none passes and there is a link; nothing (-1) when
\* there is no link.  While the scan runs, nothing is chosen and no link
\* before the current one passes.
C6_FirstMatchWins ==
    /\ (pc = "scan") =>
          /\ chosen_index = -1
          /\ \A k \in 0..(i - 1) : ~Passes(dom[k + 1])
    /\ RankingEnded =>
          LET M == {k \in 0..(count - 1) : Passes(dom[k + 1])}
          IN  chosen_index = IF M # {} THEN Least(M)
                             ELSE IF count > 0 THEN 0 ELSE -1

\* C6's case: [a.com/x, x.com/scorecard] chooses index 1
C6_Witness ==
    /\ pc = "resolve"
    /\ dom = << [title |-> TitleNews, href |-> HrefPlain],
                [title |-> TitleNews, href |-> HrefScorecard] >>
    /\ chosen_index = 1 /\ chosen_href = HrefScorecard

\* the keyword test as C7 words it: every keyword in the href or the title
PassesBothFields(link) ==
    KeywordTestBothFields(Lower(ScanHref(link)), Lower(ScanTitle(link)))

\* C7 (as claimed): when the ranking ends, the link chosen is the first whose href or title holds
\* the topic keyword or a trusted-domain substring.
C7_OrAcrossFields ==
    RankingEnded =>
        LET M == {k \in 0..(count - 1) : PassesBothFields(dom[k + 1])}
        IN  chosen_index = IF M # {} THEN Least(M)
                           ELSE IF count > 0 THEN 0 ELSE -1

\* C7 as amended: 'scorecard' and 'cricket' count in the href and in the
\* title, 'espncricinfo' and 'cricbuzz' in the href only
TopicOrHrefDomain(link) ==
    LET h == Lower(ScanHref(link))
        t == Lower(ScanTitle(link))
    IN  \/ \E kw \in {KwScorecard, KwCricket} : Contains(h, kw) \/ Contains(t, kw)
        \/ \E d \in {KwEspncricinfo, KwCricbuzz} : Contains(h, d)

\* C7 (amended): when the ranking ends, a link the scan chose holds a topic keyword in its href or
\* title or a trusted domain in its href, and no link before it does; a
\* title that alone names a trusted domain does not make a link pass.  The
\* fallback to index 0 is taken only when no link does.
C7_DomainsInHrefOnly ==
    RankingEnded =>
        /\ (i < count) =>
              /\ chosen_index = i
              /\ TopicOrHrefDomain(dom[chosen_index + 1])
              /\ \A k \in 0..(chosen_index - 1) : ~TopicOrHrefDomain(dom[k + 1])
        /\ (i = count) => \A k \in 1..count : ~TopicOrHrefDomain(dom[k])

\* C7's case: a link titled Cricbuzz with an unrelated href is passed over
\* for the later link whose href holds 'scorecard'
C7_Witness ==
    /\ pc = "resolve"
    /\ dom = << [title |-> TitleCricbuzz, href |-> HrefPlain],
                [title |-> TitleNews, href |-> HrefScorecard] >>
    /\ chosen_index = 1

\* C8: the selectors are attempted in list order, one at a time; only the
\* last attempt may have ended otherwise than by a timeout, so nothing is
\* attempted after a match; results_found says a selector matched; after a
\* timeout the next selector is the one attempted, and the no-results branch
\* is entered only once all have timed out.
C8_SelectorsInOrder ==
    /\ Len(attempts) <= Len(RESULT_LINK_SELECTORS)
    /\ \A k \in 1..Len(attempts) :
          /\ attempts[k][1] = RESULT_LINK_SELECTORS[k]
          /\ k < Len(attempts) => attempts[k][2] = "timeout"
    /\ results_found <=> (\E k \in 1..Len(attempts) : attempts[k][2] = "match")
    /\ pc = "wait_selector" => (sel_i = Len(attempts) + 1 /\ ~results_found)
    /\ (/\ attempts # <<>>
        /\ attempts[Len(attempts)][2] = "timeout"
        /\ Len(attempts) < Len(RESULT_LINK_SELECTORS)) => pc = "wait_selector"
    /\ pc = "noresults" =>
          /\ Len(attempts) = Len(RESULT_LINK_SELECTORS)
          /\ \A k \in 1..Len(attempts) : attempts[k][2] = "timeout"

\* C8's case: the first selector times out, the second matches, the third
\* is not attempted
C8_Witness ==
    /\ pc = "count" /\ results_found
    /\ attempts = << <<RESULT_LINK_SELECTORS[1], "timeout">>,
                     <<RESULT_LINK_SELECTORS[2], "match">> >>

\* C9 (as claimed): a script navigation comes only after a click was
\* attempted and failed.
C9_ClickBeforeScript ==
    \A k \in 1..Len(navlog) :
        navlog[k][1] = "evaluate" =>
            \E j \in 1..(k - 1) : navlog[j] = <<"click", "fail">>

\* C9 (amended): a script navigation is never the first operation; it comes
\* directly after the failure of the interaction with the chosen element,
\* which is the scroll into view and then, the scroll done, the click; the
\* target is then no absolute URL and the raw href is not empty.
C9_InteractionBeforeScript ==
    \A k \in 1..Len(navlog) :
        navlog[k][1] = "evaluate" =>
            /\ k > 1
            /\ navlog[1][1] = "scroll"
            /\ \/ k = 2 /\ navlog[1] = <<"scroll", "fail">>
               \/ k = 3 /\ navlog[1] = <<"scroll", "ok">>
                        /\ navlog[2] = <<"click", "fail">>
            /\ ~IsAbsolute(target)
            /\ Truthy(chosen_href)

\* C9's case: the scroll fails and the script navigation follows with no
\* click attempted
C9_Witness ==
    /\ pc = "wait_load"
    /\ Len(navlog) = 2
    /\ navlog[1] = <<"scroll", "fail">>
    /\ navlog[2][1] = "evaluate"

\* every selector was attempted and timed out
NoSelectorMatched ==
    /\ Len(attempts) = Len(RESULT_LINK_SELECTORS)
    /\ \A k \in 1..Len(attempts) : attempts[k][2] = "timeout"

\* C10: when no selector matches, the run writes one file, the markup file
\* with the noresults prefix (holding the markup when page.content()
\* returned), no screenshot, reads no result link, resolves and navigates
\* to no target, and ends.
C10_NoResultsDiagnostic ==
    NoSelectorMatched =>
        /\ pc \in {"noresults", "finally", "done"}
        /\ ~results_found
        /\ count = -1 /\ dom = <<>> /\ i = 0
        /\ chosen_index = -1 /\ target = None /\ navlog = <<>>
        /\ Len(files) = IF pc = "noresults" THEN 0 ELSE 1
        /\ \A k \in 1..Len(files) :
              /\ files[k].prefix = "bing_noresults" /\ files[k].ext = "html"
              /\ files[k].content = (IF exc = "none" THEN "markup" ELSE "empty")

\* C10's case: the run ended with the one noresults markup file
C10_Witness ==
    /\ NoSelectorMatched
    /\ pc = "done" /\ exc = "none"
    /\ Len(files) = 1
    /\ files[1].prefix = "bing_noresults" /\ files[1].content = "markup"

\* C11: when the run has ended, whichever way (the snapshot written, the
\* no-results dump, no candidate, a timeout or another exception caught by
\* the outer try), browser.close() has been called; before the run leaves
\* the try block for good it is called at most once (lines 108 and 150).
C11_BrowserClosedOnExit ==
    /\ pc = "done" => close_calls >= 1
    /\ pc # "done" => close_calls <= 1

\* C11's case: the run ended on an exception other than a timeout and the
\* only close is the one of the finally block
C11_Witness ==
    /\ pc = "done" /\ exc = "other" /\ close_calls = 1

\* a read of the k-th result link raises
ReadFails(k) == dom[k].title = Raises \/ dom[k].href = Raises

\* C12 (as claimed): a failing read of a link's title or href gives "" for
\* that field, in the scan and in the fallback to the first link, and the
\* run goes on: a run over links with a failing read does not end before
\* it has navigated.
C12_ReadFailureNeverAborts ==
    /\ (pc = "resolve" /\ dom[chosen_index + 1].title = Raises) => chosen_title = <<>>
    /\ (pc = "resolve" /\ dom[chosen_index + 1].href = Raises) => chosen_href = <<>>
    /\ (pc \in {"finally", "done"} /\ \E k \in 1..count : ReadFails(k)) =>
          navlog # <<>>

\* the statements of lines 161-178: the navigation to the chosen result
NavSteps == {"navigate", "click", "click_failed"}

\* C13 (as claimed): whatever the outcome of the navigation, it does not end
\* the run: no step of the navigation leaves for the finally block.
C13_NavigationNeverAborts ==
    [][(pc \in NavSteps) => (pc' # "finally")]_vars

\* C13 (amended): a timeout of the direct navigation, a failure of the
\* scroll or of the click and a failure of the script navigation each leave
\* the run inside the navigation or at the wait for the load state, and a
\* timeout of that wait goes on to the settle delay before the snapshot.
\* The navigation ends the run in one way only: page.goto raising something
\* else than a timeout; the wait for the load state likewise.
C13_NavFailuresAbsorbed ==
    [][/\ (pc \in NavSteps /\ pc' # "finally") =>
              /\ pc' \in NavSteps \cup {"wait_load"}
              /\ exc' = "none"
       /\ (pc \in NavSteps /\ pc' = "finally") =>
              /\ pc = "navigate" /\ IsAbsolute(target)
              /\ navlog' = << <<"goto", "error">> >>
              /\ exc' = "other"
       /\ (pc = "wait_load" /\ pc' # pc) =>
              \/ pc' = "settle" /\ exc' = "none"
              \/ pc' = "finally" /\ exc' = "other"]_vars

\* C13's case: the click failed, the script navigation failed too, and the
\* run is at the snapshot
C13_Witness ==
    /\ pc = "screenshot"
    /\ navlog = << <<"scroll", "ok">>, <<"click", "fail">>, <<"evaluate", "fail">> >>

\* the run ended with no exception caught
EndedClean == pc \in {"finally", "done"} /\ exc = "none"

\* C14: a run that ended in success (it navigated and no exception was
\* caught) wrote exactly two files, the screenshot and then the markup, both
\* named scorecard_<ts> with the one ts of line 190; a run that ended in the
\* no-results diagnostic wrote exactly one file, the noresults markup; no
\* run writes files of both prefixes, two screenshots or two markup files.
C14_ExactlyOneSnapshot ==
    /\ (EndedClean /\ navlog # <<>>) =>
          files = << File("scorecard", ts, "png", "image"),
                     File("scorecard", ts, "html", "markup") >>
    /\ (EndedClean /\ NoSelectorMatched) =>
          files = << File("bing_noresults", ts, "html", "markup") >>
    /\ Len(files) <= 2
    /\ \A k, j \in 1..Len(files) :
          /\ files[k].prefix = files[j].prefix
          /\ (k # j) => files[k].ext # files[j].ext

\* C14's case: a success run whose two files carry the timestamp 1
C14_Witness ==
    /\ pc = "done" /\ exc = "none" /\ navlog # <<>>
    /\ Len(files) = 2 /\ files[1].ts = 1 /\ files[2].ts = 1

\* the statements of lines 71-88: the consent step
ConsentSteps == {"consent", "consent_click", "consent_wait"}

\* C15: every step of the consent dialog handling, whatever its outcome,
\* stays in the consent step or goes on to the wait for the first result
\* selector, with no exception reaching the outer try; and no run clicks
\* more than one consent button.
C15_ConsentNeverPropagates ==
    [][/\ (pc \in ConsentSteps) =>
              /\ pc' \in ConsentSteps \cup {"wait_selector"}
              /\ exc' = "none"
              /\ (pc' = "wait_selector") => (sel_i' = 1 /\ attempts' = <<>>)
       /\ consent_clicks' <= 1]_vars

\* C15's case: a consent button was clicked and the run is at the first
\* result selector
C15_Witness ==
    /\ pc = "wait_selector" /\ consent_clicks = 1
    /\ sel_i = 1 /\ exc = "none"

\* the statements of main in program order, the last first
Stage ==
    [done |-> 0, finally |-> 1, save_html |-> 2, title |-> 3,
     screenshot |-> 4, settle |-> 5, wait_load |-> 6, click_failed |-> 7,
     click |-> 8, navigate |-> 9, resolve |-> 10, scan |-> 11, count |-> 12,
     noresults |-> 13, wait_selector |-> 14, consent_wait |-> 15,
     consent_click |-> 16, consent |-> 17, goto_search |-> 18]

\* the iterations the loop at pc has left
LoopLeft ==
    CASE pc = "consent" -> Len(consent_selectors) - consent_i
      [] pc = "wait_selector" -> Len(RESULT_LINK_SELECTORS) - sel_i
      [] pc = "scan" -> count - i
      [] OTHER -> 0

\* some action of Next can be taken (ScanLink and ResolveTarget by their
\* guards: what follows the guard in them is an IF that sets every variable
\* in both branches)
CanStep ==
    \/ ENABLED (\/ GotoSearch \/ ConsentCount \/ ConsentClick \/ ConsentWait
                \/ WaitForSelector \/ NoResultsDump \/ CountResults
                \/ Fallback \/ NoCandidate
                \/ GotoTarget \/ ScrollIntoView \/ Click
                \/ ScriptNav \/ SkipScriptNav
                \/ WaitLoadState \/ Settle \/ Screenshot \/ PageTitle
                \/ SaveHtml \/ Finally)
    \/ pc = "scan" /\ i < count
    \/ pc = "resolve"

\* C16: every operation completing or timing out, every run ends.  Until
\* main has ended a step can be taken, and every step either moves forward
\* in the program or uses up one iteration of the loop it is in, of which
\* there are finitely many: no loop, no chain of fallbacks repeats.
C16_Terminates ==
    /\ [](pc # "done" => CanStep)
    /\ [](LoopLeft \in Nat)
    /\ [][\/ Stage[pc'] < Stage[pc]
          \/ Stage[pc'] = Stage[pc] /\ LoopLeft' < LoopLeft]_vars

\* C16's case: a run that went through every selector, the scan of
\* MaxCands links and the whole navigation chain has ended
C16_Witness ==
    /\ pc = "done"
    /\ Len(attempts) = Len(RESULT_LINK_SELECTORS)
    /\ count = MaxCands
    /\ Len(navlog) = 3

C18_NoCandidateStops ==
    (results_found /\ count = 0) =>
        /\ pc \in {"scan", "finally", "done"}
        /\ chosen_index = -1 /\ chosen_href = None
        /\ target = None /\ navlog = <<>> /\ files = <<>>
        /\ exc = "none"

\* C18's case: the run over an empty list of links has ended
C18_Witness ==
    /\ results_found /\ count = 0 /\ dom = <<>>
    /\ pc = "done" /\ close_calls = 2

(***************************************************************************)
(* The click-to-send script, pyautogui_ass.py.  Time is counted in ticks   *)
(* of 0.175 s.  The mouse listener calls on_click for one event at a time; *)
(* on_press runs in the keyboard listener's thread and main in the main    *)
(* thread, so both interleave with on_click, which is modelled in two      *)
(* steps: the test of _stop_flag, then the rest.                           *)
(***************************************************************************)
SEND_ON == "left"

\* 0.35 s
DEBOUNCE_SECONDS == 2

\* the last reading of time.time()
MaxClock == 6

Buttons == {"left", "right"}
Keys == {"esc", "a"}

\* main is called; the epoch is long past, so a first click is never closer
\* than DEBOUNCE_SECONDS to the initial _last_send_time of 0.0
InitSend ==
    /\ rpc = "idle" /\ href = None /\ plain = None
    /\ ret = Unset /\ ret2 = Unset
    /\ MainIdle
    /\ spc = "start_keyboard"
    /\ _last_send_time = 0 /\ _stop_flag = FALSE
    /\ clock = DEBOUNCE_SECONDS
    /\ mouse_running = FALSE /\ keyboard_running = FALSE
    /\ click_pc = "idle" /\ event = NoEvent /\ outcome = "none"
    /\ sends = <<>>

\* time passes
Tick ==
    /\ spc \notin {"idle", "exited"}
    /\ clock < MaxClock
    /\ clock' = clock + 1
    /\ UNCHANGED <<rvars, mvars, spc, _last_send_time, _stop_flag,
                   mouse_running, keyboard_running, click_pc, event,
                   outcome, sends>>

\* lines 70-71
StartKeyboard ==
    /\ spc = "start_keyboard"
    /\ keyboard_running' = TRUE
    /\ spc' = "start_mouse"
    /\ UNCHANGED <<rvars, mvars, _last_send_time, _stop_flag, clock,
                   mouse_running, click_pc, event, outcome, sends>>

\* line 74, entering the with block
StartMouse ==
    /\ spc = "start_mouse"
    /\ mouse_running' = TRUE
    /\ spc' = "loop"
    /\ UNCHANGED <<rvars, mvars, _last_send_time, _stop_flag, clock,
                   keyboard_running, click_pc, event, outcome, sends>>

\* line 76
LoopTest ==
    /\ spc = "loop"
    /\ spc' = IF mouse_running /\ ~_stop_flag THEN "sleep" ELSE "exit_with"
    /\ UNCHANGED <<rvars, mvars, _last_send_time, _stop_flag, clock,
                   mouse_running, keyboard_running, click_pc, event,
                   outcome, sends>>

\* line 77
Sleep ==
    /\ spc = "sleep"
    /\ spc' = "loop"
    /\ UNCHANGED <<rvars, mvars, _last_send_time, _stop_flag, clock,
                   mouse_running, keyboard_running, click_pc, event,
                   outcome, sends>>

\* line 74, leaving the with block: the mouse listener is stopped
ExitWith ==
    /\ spc = "exit_with"
    /\ mouse_running' = FALSE
    /\ spc' = "stop_keyboard"
    /\ UNCHANGED <<rvars, mvars, _last_send_time, _stop_flag, clock,
                   keyboard_running, click_pc, event, outcome, sends>>

\* lines 79-80
StopKeyboard ==
    /\ spc = "stop_keyboard"
    /\ keyboard_running' = FALSE
    /\ spc' = "exited"
    /\ UNCHANGED <<rvars, mvars, _last_send_time, _stop_flag, clock,
                   mouse_running, click_pc, event, outcome, sends>>

\* lines 51-63: a key is pressed; Esc sets the flag and, on_press returning
\* False, ends the keyboard listener
OnPress ==
    /\ keyboard_running
    /\ \E key \in Keys :
          IF key = "esc"
          THEN _stop_flag' = TRUE /\ keyboard_running' = FALSE
          ELSE UNCHANGED <<_stop_flag, keyboard_running>>
    /\ UNCHANGED <<rvars, mvars, spc, _last_send_time, clock, mouse_running,
                   click_pc, event, outcome, sends>>

\* on_click entered without the test of _stop_flag
OnClickEnterNoStopTest ==
    /\ mouse_running /\ click_pc = "idle"
    /\ \E b \in Buttons, pr \in BOOLEAN :
          event' = [button |-> b, pressed |-> pr, late |-> _stop_flag]
    /\ click_pc' = "line35"
    /\ UNCHANGED <<rvars, mvars, spc, _last_send_time, _stop_flag, clock,
                   mouse_running, keyboard_running, outcome, sends>>

\* lines 27-33: the listener calls on_click for a mouse event (late: the
\* flag was set when the event came); with the flag set on_click returns
\* False, which ends the mouse listener
OnClickEnter ==
    /\ mouse_running /\ click_pc = "idle"
    /\ \E b \in Buttons, pr \in BOOLEAN :
          IF _stop_flag
          THEN /\ mouse_running' = FALSE
               /\ outcome' = "stopped"
               /\ UNCHANGED <<click_pc, event>>
          ELSE /\ event' = [button |-> b, pressed |-> pr, late |-> _stop_flag]
               /\ click_pc' = "line35"
               /\ UNCHANGED <<mouse_running, outcome>>
    /\ UNCHANGED <<rvars, mvars, spc, _last_send_time, _stop_flag, clock,
                   keyboard_running, sends>>

\* a send_message thread started: when, and for which event
Send(now, ev) == [at |-> now, event |-> ev]

\* the rest of on_click without the test of line 43
OnClickBodyNoDebounce ==
    /\ click_pc = "line35"
    /\ CASE ~event.pressed ->
               outcome' = "release" /\ UNCHANGED <<_last_send_time, sends>>
         [] event.pressed /\ event.button # SEND_ON ->
               outcome' = "other_button" /\ UNCHANGED <<_last_send_time, sends>>
         [] OTHER ->
               /\ _last_send_time' = clock
               /\ sends' = Append(sends, Send(clock, event))
               /\ outcome' = "sent"
    /\ click_pc' = "idle" /\ event' = NoEvent
    /\ UNCHANGED <<rvars, mvars, spc, _stop_flag, clock, mouse_running,
                   keyboard_running>>

\* lines 35-49: now is time.time() at line 42
OnClickBody ==
    /\ click_pc = "line35"
    /\ CASE ~event.pressed ->
               outcome' = "release" /\ UNCHANGED <<_last_send_time, sends>>
         [] event.pressed /\ event.button # SEND_ON ->
               outcome' = "other_button" /\ UNCHANGED <<_last_send_time, sends>>
         [] event.pressed /\ event.button = SEND_ON
               /\ clock - _last_send_time < DEBOUNCE_SECONDS ->
               outcome' = "debounced" /\ UNCHANGED <<_last_send_time, sends>>
         [] OTHER ->
               /\ _last_send_time' = clock
               /\ sends' = Append(sends, Send(clock, event))
               /\ outcome' = "sent"
    /\ click_pc' = "idle" /\ event' = NoEvent
    /\ UNCHANGED <<rvars, mvars, spc, _stop_flag, clock, mouse_running,
                   keyboard_running>>

\* the main thread of the script
MainThread ==
    \/ StartKeyboard \/ StartMouse \/ LoopTest \/ Sleep \/ ExitWith
    \/ StopKeyboard

NextSend == MainThread \/ Tick \/ OnPress \/ OnClickEnter \/ OnClickBody

SpecSend == InitSend /\ [][NextSend]_vars

\* the main thread is scheduled
FairSpecSend == SpecSend /\ WF_vars(MainThread)

(***************************************************************************)
(* Claims about the click-to-send script, checked under SpecSend.          *)
(***************************************************************************)

\* C19: every send was started for a press of the SEND_ON button; two
\* consecutive sends are DEBOUNCE_SECONDS apart or more, _last_send_time
\* being the time of the last one; and on_click handling such a press less
\* than DEBOUNCE_SECONDS after _last_send_time starts no send and leaves
\* _last_send_time as it is.
C19_DebouncedSends ==
    /\ [](/\ \A k \in 1..Len(sends) :
                /\ sends[k].event.pressed
                /\ sends[k].event.button = SEND_ON
          /\ \A k \in 1..(Len(sends) - 1) :
                sends[k + 1].at - sends[k].at >= DEBOUNCE_SECONDS
          /\ _last_send_time = IF sends = <<>> THEN 0 ELSE sends[Len(sends)].at)
    /\ [][(/\ click_pc = "line35" /\ click_pc' = "idle"
           /\ event.pressed /\ event.button = SEND_ON
           /\ clock - _last_send_time < DEBOUNCE_SECONDS) =>
              /\ UNCHANGED <<sends, _last_send_time>>
              /\ outcome' = "debounced"]_vars

\* C19's case: two sends were started and a later press of the button, too
\* close to the second, was ignored
C19_Witness ==
    /\ Len(sends) = 2
    /\ outcome = "debounced" /\ click_pc = "idle"
    /\ clock - _last_send_time < DEBOUNCE_SECONDS

\* C20: no send is started for a mouse event that came with the flag set:
\* with the flag set and no call of on_click under way, no call gets past
\* line 32 and no send is started, however on_press, on_click and main
\* interleave; and, the main thread being scheduled, once the flag is set
\* main leaves its loop and ends.
C20_StopFlagStopsSends ==
    /\ [](\A k \in 1..Len(sends) : ~sends[k].event.late)
    /\ [][(_stop_flag /\ click_pc = "idle") =>
              (click_pc' = "idle" /\ sends' = sends /\ _stop_flag')]_vars
    /\ (_stop_flag ~> spc = "exited")

\* C20's case: Esc was pressed, a mouse event that came after it was
\* refused, and main has ended
C20_Witness ==
    /\ _stop_flag /\ outcome = "stopped"
    /\ ~mouse_running /\ spc = "exited"

====
